---- MODULE Spec2Model ----
(***************************************************************************)
(* A model of ProxyBot (src/main.py): harvesting of candidate proxies from *)
(* the configured sources, the threaded validation sweep with its upsert   *)
(* into the MongoDB collection, and the endpoint-test sweep over the       *)
(* working set.                                                            *)
(*                                                                         *)
(* Text is a sequence of one-character strings, so that the regular        *)
(* expression IP_PORT_REGEX and int() are computed, not assumed.           *)
(***************************************************************************)
EXTENDS Integers, Sequences, FiniteSets, TLC

VARIABLES
    store,            \* self.collection: the documents, in insertion order
    pc,               \* where the main thread is
    now,              \* the wall clock (time.time(), datetime.now())
    fetched,          \* harvest_all: what each source's GET produced
    proxies,          \* validate_and_store_all: the submitted candidate list
    working_proxies,  \* test_all_proxies_against_endpoint: rows read
    futures,          \* the executor's futures of the running sweep
    idx,              \* position of the main thread's loop over the futures
    results,          \* test_all_proxies_against_endpoint: the result list
    stored,           \* store_proxy calls made by the running harvest sweep
    pool,             \* the counting view of one executor (SpecPool)
    upserts,          \* store_proxy calls of overlapping callers (SpecUpsert)
    seq               \* sequential_harvest_and_test: loop position and steps

vars == <<store, pc, now, fetched, proxies, working_proxies, futures, idx,
          results, stored, pool, upserts, seq>>

(***************************************************************************)
(* Bounds of the model.                                                    *)
(***************************************************************************)
MaxClock == 2
MaxSubmitted == 122
MaxCycles == 2
TickSeconds == 4

(***************************************************************************)
(* CONFIG                                                                  *)
(***************************************************************************)
VALIDATION_URL == "http://httpbin.org/ip"
VALIDATION_TIMEOUT == 8
TARGET_ENDPOINT == "http://16.171.170.83:3000/"
HARVEST_MAX_WORKERS == 120
TEST_MAX_WORKERS == 50

None == [type |-> "NoneType"]

\* The sources of the model: a text list hinted http, one hinted socks5, and
\* geonode (whose name holds neither hint, so that its text is read as socks4).
SOURCES == <<"the_speedx_http", "the_speedx_socks5", "geonode">>

\* `"http" in name`, `"socks5" in name` on the names of SOURCES.
NameContains(name, part) ==
    CASE part = "http"   -> name \in {"the_speedx_http"}
      [] part = "socks5" -> name \in {"the_speedx_socks5"}
      [] OTHER           -> FALSE

(***************************************************************************)
(* Text, IP_PORT_REGEX and int()                                           *)
(***************************************************************************)
Digits == <<"0", "1", "2", "3", "4", "5", "6", "7", "8", "9">>

IsDigit(c) == \E i \in 1..10 : Digits[i] = c

DigitVal(c) == (CHOOSE i \in 1..10 : Digits[i] = c) - 1

Min(a, b) == IF a < b THEN a ELSE b

\* Length of the maximal run of digits of s that starts at position p.
RECURSIVE DigitRun(_, _)
DigitRun(s, p) ==
    IF p > Len(s) \/ ~IsDigit(s[p]) THEN 0 ELSE 1 + DigitRun(s, p + 1)

\* \d{1,3} followed by the character sep, at p: the position after sep, or 0.
\* The quantifier is greedy and backtracks, but sep is no digit, so it matches
\* only after the whole run of digits.
OctetEnd(s, p, sep) ==
    LET r == DigitRun(s, p)
    IN  IF p # 0 /\ r >= 1 /\ r <= 3 /\ p + r <= Len(s) /\ s[p + r] = sep
        THEN p + r + 1 ELSE 0

\* (?:\d{1,3}\.){3}\d{1,3}:\d{2,5} at p: the position after the match, or 0.
MatchEnd(s, p) ==
    LET q1 == OctetEnd(s, p, ".")
        q2 == OctetEnd(s, q1, ".")
        q3 == OctetEnd(s, q2, ".")
        q4 == OctetEnd(s, q3, ":")
        r  == IF q4 = 0 THEN 0 ELSE DigitRun(s, q4)
    IN  IF q4 # 0 /\ r >= 2 THEN q4 + Min(r, 5) ELSE 0

\* IP_PORT_REGEX.findall(s), scanning from p: the non-overlapping matches.
RECURSIVE FindAll(_, _)
FindAll(s, p) ==
    IF p > Len(s) THEN <<>>
    ELSE LET e == MatchEnd(s, p)
         IN  IF e # 0 THEN <<SubSeq(s, p, e - 1)>> \o FindAll(s, e)
             ELSE FindAll(s, p + 1)

\* Position of the first ":" of s (a match holds exactly one).
RECURSIVE ColonAt(_, _)
ColonAt(s, p) ==
    IF p > Len(s) THEN 0 ELSE IF s[p] = ":" THEN p ELSE ColonAt(s, p + 1)

\* int() of a string of decimal digits.
RECURSIVE IntOfDigits(_)
IntOfDigits(s) ==
    IF s = <<>> THEN 0
    ELSE 10 * IntOfDigits(SubSeq(s, 1, Len(s) - 1)) + DigitVal(s[Len(s)])

AllDigits(s) == s # <<>> /\ \A i \in 1..Len(s) : IsDigit(s[i])

(***************************************************************************)
(* What a GET on a source can produce.  A body is text or parsed JSON.     *)
(***************************************************************************)
Chars(str) == [type |-> "str", val |-> str]

\* "1.1.1.1:80\n"
TextGood ==
    Chars(<<"1", ".", "1", ".", "1", ".", "1", ":", "8", "0", "\n">>)

\* "x:1\n1.1.1.1:80\n1.1.1:80\n": only the middle line is an ip:port
TextMixed ==
    Chars(<<"x", ":", "1", "\n",
            "1", ".", "1", ".", "1", ".", "1", ":", "8", "0", "\n",
            "1", ".", "1", ".", "1", ":", "8", "0", "\n">>)

Ip1111 == <<"1", ".", "1", ".", "1", ".", "1">>

JsonInt(n) == [t |-> "int", v |-> n]
JsonStr(str) == [t |-> "str", v |-> str]

\* {"data": [{"ip": "1.1.1.1", "port": "80", "protocols": ["HTTP"]}]}
JsonGood ==
    [type |-> "dict",
     data |-> << [ip |-> Ip1111, port |-> JsonStr(<<"8", "0">>),
                  protocols |-> <<"HTTP">>] >>]

\* {"data": [{"ip": "1.1.1.1", "port": "8o", "protocols": ["http"]},
\*           {"ip": "1.1.1.1", "port": 80, "protocols": ["socks5"]}]}
JsonBadPort ==
    [type |-> "dict",
     data |-> << [ip |-> Ip1111, port |-> JsonStr(<<"8", "o">>),
                  protocols |-> <<"http">>],
                 [ip |-> Ip1111, port |-> JsonInt(80),
                  protocols |-> <<"socks5">>] >>]

Exception(msg) == [kind |-> "exception", msg |-> msg]
Response(status, json, body) ==
    [kind |-> "response", status |-> status, json |-> json, body |-> body]

ResponsesOf(name) ==
    CASE name = "the_speedx_http" ->
            { Exception("timeout"), Response(404, FALSE, TextGood),
              Response(200, FALSE, TextGood), Response(200, FALSE, TextMixed) }
      [] name = "the_speedx_socks5" ->
            { Exception("connection error"), Response(200, FALSE, TextGood),
              Response(200, TRUE, JsonGood) }
      [] name = "geonode" ->
            { Exception("timeout"), Response(200, TRUE, JsonGood),
              Response(200, TRUE, JsonBadPort) }

(***************************************************************************)
(* fetch, harvest_source, harvest_all                                      *)
(***************************************************************************)
\* fetch(url): the body of a 200 response, None otherwise.
fetch(resp) ==
    IF resp.kind = "response" /\ resp.status = 200 THEN resp.body ELSE None

\* `not raw`
Falsy(raw) ==
    \/ raw = None
    \/ raw.type = "str" /\ raw.val = <<>>
    \/ raw.type = "dict" /\ DOMAIN raw = {"type"}

\* int(x) raises ValueError on a string that is no decimal number.
IntRaises(x) == x.t = "str" /\ ~AllDigits(x.v)
int(x) == IF x.t = "int" THEN x.v ELSE IntOfDigits(x.v)

\* str.lower() on the protocol names of the payloads.
Lower(proto) ==
    CASE proto = "HTTP"   -> "http"
      [] proto = "SOCKS5" -> "socks5"
      [] proto = "SOCKS4" -> "socks4"
      [] OTHER            -> proto

Returned(v) == [raised |-> FALSE, value |-> v]
Raised == [raised |-> TRUE, value |-> <<>>]

\* item.get("port", 0)
PortField(item) == IF "port" \in DOMAIN item THEN item.port ELSE JsonInt(0)

\* One item of the geonode list: a candidate per protocol.
GeonodeItem(item) ==
    LET protos == IF "protocols" \in DOMAIN item THEN item.protocols ELSE <<>>
    IN  [k \in 1..Len(protos) |->
            <<item.ip, int(PortField(item)), Lower(protos[k])>>]

RECURSIVE GeonodeItems(_, _)
GeonodeItems(data, i) ==
    IF i > Len(data) THEN Returned(<<>>)
    ELSE IF IntRaises(PortField(data[i])) THEN Raised
    ELSE LET rest == GeonodeItems(data, i + 1)
         IN  IF rest.raised THEN Raised
             ELSE Returned(GeonodeItem(data[i]) \o rest.value)

ProtoHint(name) ==
    IF NameContains(name, "http") THEN "http"
    ELSE IF NameContains(name, "socks5") THEN "socks5" ELSE "socks4"

\* The text branch: every ip:port of the text, with the hinted protocol.
TextItems(name, text) ==
    LET found == FindAll(text, 1)
    IN  [k \in 1..Len(found) |->
            LET c == ColonAt(found[k], 1)
            IN  << SubSeq(found[k], 1, c - 1),
                   IntOfDigits(SubSeq(found[k], c + 1, Len(found[k]))),
                   ProtoHint(name) >>]

\* harvest_source(name, url), given what the GET produced.
harvest_source(name, resp) ==
    LET raw == fetch(resp)
    IN  IF Falsy(raw) THEN Returned(<<>>)
        ELSE IF name = "geonode" /\ raw.type = "dict"
             THEN GeonodeItems(IF "data" \in DOMAIN raw THEN raw.data ELSE <<>>, 1)
        ELSE IF raw.type = "str" THEN Returned(TextItems(name, raw.val))
        ELSE Returned(<<>>)

\* asyncio.gather(*tasks): the results in task order; raises if a task raised.
RECURSIVE Gather(_, _)
Gather(resps, i) ==
    IF i > Len(SOURCES) THEN Returned(<<>>)
    ELSE LET r    == harvest_source(SOURCES[i], resps[i])
             rest == Gather(resps, i + 1)
         IN  IF r.raised \/ rest.raised THEN Raised
             ELSE Returned(r.value \o rest.value)

Range(s) == {s[i] : i \in 1..Len(s)}

\* list(a set): the elements, each once, in some order.
ListsOf(S) ==
    {l \in [1..Cardinality(S) -> S] : Range(l) = S}

(***************************************************************************)
(* A probe: requests.get through the proxy ends with a response or raises. *)
(***************************************************************************)
ProbeOutcomes ==
    { [kind |-> "response", status |-> 200],
      [kind |-> "response", status |-> 503],
      [kind |-> "exception", msg |-> "timeout"],
      [kind |-> "exception", msg |-> "connection error"] }

\* validate_proxy without the test of the status code.
validate_proxy_any_status(proxy_tuple, outcome, start, end) ==
    IF outcome.kind = "response"
    THEN [ip |-> proxy_tuple[1], port |-> proxy_tuple[2],
          protocol |-> proxy_tuple[3],
          is_working |-> TRUE,
          response_time |-> end - start,
          last_checked |-> end,
          status_code |-> outcome.status,
          test_url |-> VALIDATION_URL]
    ELSE None

\* validate_proxy(proxy_tuple): the document of a 200 response, None otherwise.
\* The request started at time start and ended, with outcome, at time end.
validate_proxy(proxy_tuple, outcome, start, end) ==
    IF outcome.kind = "response" /\ outcome.status = 200
    THEN [ip |-> proxy_tuple[1], port |-> proxy_tuple[2],
          protocol |-> proxy_tuple[3],
          is_working |-> TRUE,
          response_time |-> end - start,
          last_checked |-> end,
          status_code |-> outcome.status,
          test_url |-> VALIDATION_URL]
    ELSE None

\* test_proxy_against_endpoint that takes every response for a success.
test_proxy_any_response(proxy_doc, endpoint_url, outcome, start, end) ==
    IF outcome.kind = "response"
    THEN [proxy |-> <<proxy_doc.ip, proxy_doc.port>>,
          protocol |-> proxy_doc.protocol,
          status_code |-> outcome.status,
          response_time |-> end - start,
          success |-> TRUE,
          endpoint |-> endpoint_url,
          timestamp |-> end]
    ELSE [proxy |-> <<proxy_doc.ip, proxy_doc.port>>,
          protocol |-> proxy_doc.protocol,
          error |-> outcome.msg,
          success |-> FALSE,
          endpoint |-> endpoint_url,
          timestamp |-> end]

\* test_proxy_against_endpoint(proxy_doc, endpoint_url)
test_proxy_against_endpoint(proxy_doc, endpoint_url, outcome, start, end) ==
    IF outcome.kind = "response"
    THEN [proxy |-> <<proxy_doc.ip, proxy_doc.port>>,
          protocol |-> proxy_doc.protocol,
          status_code |-> outcome.status,
          response_time |-> end - start,
          success |-> (outcome.status = 200),
          endpoint |-> endpoint_url,
          timestamp |-> end]
    ELSE [proxy |-> <<proxy_doc.ip, proxy_doc.port>>,
          protocol |-> proxy_doc.protocol,
          error |-> outcome.msg,
          success |-> FALSE,
          endpoint |-> endpoint_url,
          timestamp |-> end]

(***************************************************************************)
(* The collection and store_proxy                                          *)
(***************************************************************************)
Identity(doc) == <<doc.ip, doc.port, doc.protocol>>

\* A collection without the unique index.
DuplicateKeyNoIndex(coll, doc) == FALSE

\* The unique index on (ip, port, protocol): insert_one raises
\* DuplicateKeyError when a document of the same key is in the collection.
DuplicateKey(coll, doc) ==
    \E i \in 1..Len(coll) : Identity(coll[i]) = Identity(doc)

insert_one(coll, doc) == Append(coll, doc)

\* An update whose filter names the ip alone and that sets every match.
update_by_ip(coll, key, last_checked, response_time) ==
    [i \in 1..Len(coll) |->
        IF coll[i].ip = key[1]
        THEN [coll[i] EXCEPT !.last_checked = last_checked,
                             !.response_time = response_time]
        ELSE coll[i]]

\* An update that sets last_checked alone.
update_one_last_checked(coll, key, last_checked, response_time) ==
    IF \E i \in 1..Len(coll) : Identity(coll[i]) = key
    THEN LET i == CHOOSE i \in 1..Len(coll) :
                    /\ Identity(coll[i]) = key
                    /\ \A j \in 1..(i - 1) : Identity(coll[j]) # key
         IN  [coll EXCEPT ![i] = [@ EXCEPT !.last_checked = last_checked]]
    ELSE coll

\* update_one({ip, port, protocol}, {"$set": {last_checked, response_time}}):
\* the first document the filter matches gets the two fields set.
update_one(coll, key, last_checked, response_time) ==
    IF \E i \in 1..Len(coll) : Identity(coll[i]) = key
    THEN LET i == CHOOSE i \in 1..Len(coll) :
                    /\ Identity(coll[i]) = key
                    /\ \A j \in 1..(i - 1) : Identity(coll[j]) # key
         IN  [coll EXCEPT ![i] = [@ EXCEPT !.last_checked = last_checked,
                                           !.response_time = response_time]]
    ELSE coll

\* store_proxy(proxy_doc), called at time t.
store_proxy(coll, proxy_doc, t) ==
    IF DuplicateKey(coll, proxy_doc)
    THEN update_one(coll, Identity(proxy_doc), t, proxy_doc.response_time)
    ELSE insert_one(coll, proxy_doc)

\* self.collection.find({"is_working": True})
IsWorking(doc) == doc.is_working
find_working(coll) == SelectSeq(coll, IsWorking)

(***************************************************************************)
(* The executor of a sweep                                                 *)
(***************************************************************************)
Queued == [st |-> "queued", start |-> 0, outcome |-> None, result |-> None]

\* executor.map / executor.submit of n calls: n futures, none started.
Submitted(n) == [i \in 1..n |-> Queued]

InFlight(fs) == {i \in 1..Len(fs) : fs[i].st = "running"}

\* An executor that starts a thread per submitted call.
CanDispatchUnbounded(running, max_workers) == TRUE

\* A worker thread exists for a queued call only below max_workers threads.
CanDispatch(running, max_workers) == running < max_workers

\* A result taken, and an executor shut down, without waiting.
FutureDoneNoWait(f) == TRUE

\* future.result() returns, and the executor's shutdown(wait=True) lets go of
\* a call, once the call has finished.
FutureDone(f) == f.st = "done"

AllDone(fs) == \A i \in 1..Len(fs) : FutureDone(fs[i])

MaxWorkers == IF pc = "validating" THEN HARVEST_MAX_WORKERS ELSE TEST_MAX_WORKERS

(***************************************************************************)
(* The main thread.  At "idle" it is between two operations: the process   *)
(* was launched, or a loop (automated_cycle, sequential_harvest_and_test,  *)
(* --continuous) is about to call run_once or                              *)
(* test_all_proxies_against_endpoint.                                      *)
(***************************************************************************)
NoPool == [kind |-> "none", submitted |-> 0, started |-> 0, finished |-> 0]
NoUpserts == <<>>
NoSeq == [at |-> "off", log |-> <<>>, cycle_count |-> 0]

Init ==
    /\ store = <<>>
    /\ pc = "idle"
    /\ now = 0
    /\ fetched = <<>>
    /\ proxies = <<>>
    /\ working_proxies = <<>>
    /\ futures = <<>>
    /\ idx = 0
    /\ results = <<>>
    /\ stored = 0
    /\ pool = NoPool
    /\ upserts = NoUpserts
    /\ seq = NoSeq

\* Time passes.
Tick ==
    /\ now < MaxClock
    /\ now' = now + 1
    /\ UNCHANGED <<store, pc, fetched, proxies, working_proxies, futures, idx,
                   results, stored, pool, upserts, seq>>

\* A harvest_all that returns the merged list as it is.
NotDeduplicated(merged) == {merged}

\* harvest_all, lines 87-89: the set of the merged triples, as a list.
Deduplicated(merged) == ListsOf(Range(merged))

\* What the GETs of one harvest can produce: a response per source.
FetchInputs ==
    {resps \in [1..Len(SOURCES) ->
                   UNION {ResponsesOf(SOURCES[i]) : i \in 1..Len(SOURCES)}] :
        \A i \in 1..Len(SOURCES) : resps[i] \in ResponsesOf(SOURCES[i])}

\* harvest_all on each of them: the gathered lists, or the exception of a task.
Gathered == [resps \in FetchInputs |-> Gather(resps, 1)]

\* run_once, line 246: harvest_all fetches every source, gathers, removes the
\* duplicates and returns the list of a set; an exception of a task leaves
\* harvest_all, run_once and the process.
HarvestAll ==
    /\ pc = "idle"
    /\ \E resps \in FetchInputs :
         /\ fetched' = resps
         /\ IF Gathered[resps].raised
            THEN /\ pc' = "raised"
                 /\ proxies' = <<>>
            ELSE /\ pc' = "harvested"
                 /\ proxies' \in Deduplicated(Gathered[resps].value)
    /\ working_proxies' = <<>>
    /\ futures' = <<>>
    /\ idx' = 0
    /\ results' = <<>>
    /\ stored' = 0
    /\ UNCHANGED <<store, now, pool, upserts, seq>>

\* validate_and_store_all, lines 152-153: executor.map submits every call.
ValidateSubmit ==
    /\ pc = "harvested"
    /\ pc' = "validating"
    /\ futures' = Submitted(Len(proxies))
    /\ idx' = 1
    /\ fetched' = <<>>
    /\ UNCHANGED <<store, now, proxies, working_proxies, results, stored, pool, upserts, seq>>

\* A worker thread takes the oldest queued call and starts its request.
WorkerStart(i) ==
    /\ pc \in {"validating", "testing"}
    /\ futures[i].st = "queued"
    /\ \A j \in 1..(i - 1) : futures[j].st # "queued"
    /\ CanDispatch(Cardinality(InFlight(futures)), MaxWorkers)
    /\ futures' = [futures EXCEPT ![i] = [@ EXCEPT !.st = "running", !.start = now]]
    /\ UNCHANGED <<store, pc, now, fetched, proxies, working_proxies, idx,
                   results, stored, pool, upserts, seq>>

\* A validate_proxy call that is queued again when its request raised.
ValidateFinishRetry(i) ==
    /\ pc = "validating"
    /\ futures[i].st = "running"
    /\ \E outcome \in ProbeOutcomes :
         futures' = [futures EXCEPT ![i] =
                        IF outcome.kind = "exception"
                        THEN Queued
                        ELSE [st |-> "done", start |-> @.start, outcome |-> outcome,
                              result |-> validate_proxy(proxies[i], outcome, @.start, now)]]
    /\ UNCHANGED <<store, pc, now, fetched, proxies, working_proxies, idx,
                   results, stored, pool, upserts, seq>>

\* The request of validate_proxy ends; the call returns its document or None.
ValidateFinish(i) ==
    /\ pc = "validating"
    /\ futures[i].st = "running"
    /\ \E outcome \in ProbeOutcomes :
         futures' = [futures EXCEPT ![i] =
                        [st |-> "done", start |-> @.start, outcome |-> outcome,
                         result |-> validate_proxy(proxies[i], outcome, @.start, now)]]
    /\ UNCHANGED <<store, pc, now, fetched, proxies, working_proxies, idx,
                   results, stored, pool, upserts, seq>>

\* A loop that handles the results only when every call has ended.
ValidateCollectAfterAll ==
    /\ pc = "validating"
    /\ idx <= Len(futures)
    /\ AllDone(futures)
    /\ IF futures[idx].result # None
       THEN /\ store' = store_proxy(store, futures[idx].result, now)
            /\ stored' = stored + 1
       ELSE UNCHANGED <<store, stored>>
    /\ idx' = idx + 1
    /\ UNCHANGED <<pc, now, fetched, proxies, working_proxies, futures, results, pool, upserts, seq>>

\* A loop that also handles a failed validation: the rows of the candidate are
\* marked as not working.
ValidateCollectPrune ==
    /\ pc = "validating"
    /\ idx <= Len(futures)
    /\ FutureDone(futures[idx])
    /\ IF futures[idx].result # None
       THEN /\ store' = store_proxy(store, futures[idx].result, now)
            /\ stored' = stored + 1
       ELSE /\ store' = [k \in 1..Len(store) |->
                           IF Identity(store[k]) = proxies[idx]
                           THEN [store[k] EXCEPT !.is_working = FALSE]
                           ELSE store[k]]
            /\ UNCHANGED stored
    /\ idx' = idx + 1
    /\ UNCHANGED <<pc, now, fetched, proxies, working_proxies, futures, results, pool, upserts, seq>>

\* validate_and_store_all, lines 153-155: the loop takes the next result in
\* submission order and stores it if it is a document.
ValidateCollect ==
    /\ pc = "validating"
    /\ idx <= Len(futures)
    /\ FutureDone(futures[idx])
    /\ IF futures[idx].result # None
       THEN /\ store' = store_proxy(store, futures[idx].result, now)
            /\ stored' = stored + 1
       ELSE UNCHANGED <<store, stored>>
    /\ idx' = idx + 1
    /\ UNCHANGED <<pc, now, fetched, proxies, working_proxies, futures, results, pool, upserts, seq>>

\* validate_and_store_all returns: the loop is over and the with block has
\* shut the executor down.
ValidateReturn ==
    /\ pc = "validating"
    /\ idx > Len(futures)
    /\ AllDone(futures)
    /\ pc' = "harvest_returned"
    /\ UNCHANGED <<store, now, fetched, proxies, working_proxies, futures, idx,
                   results, stored, pool, upserts, seq>>

\* test_all_proxies_against_endpoint that raises on an empty working set.
TestBeginRaisesOnEmpty ==
    /\ pc = "idle"
    /\ working_proxies' = find_working(store)
    /\ results' = <<>>
    /\ IF find_working(store) = <<>>
       THEN /\ pc' = "test_raised"
            /\ futures' = <<>>
            /\ idx' = 0
       ELSE /\ pc' = "testing"
            /\ futures' = Submitted(Len(find_working(store)))
            /\ idx' = 1
    /\ fetched' = <<>>
    /\ proxies' = <<>>
    /\ stored' = 0
    /\ UNCHANGED <<store, now, pool, upserts, seq>>

\* test_all_proxies_against_endpoint, lines 205-221: read the working set;
\* return [] if it is empty, else submit a call per row.
TestBegin ==
    /\ pc = "idle"
    /\ working_proxies' = find_working(store)
    /\ results' = <<>>
    /\ IF find_working(store) = <<>>
       THEN /\ pc' = "test_returned"
            /\ futures' = <<>>
            /\ idx' = 0
       ELSE /\ pc' = "testing"
            /\ futures' = Submitted(Len(find_working(store)))
            /\ idx' = 1
    /\ fetched' = <<>>
    /\ proxies' = <<>>
    /\ stored' = 0
    /\ UNCHANGED <<store, now, pool, upserts, seq>>

\* The request of test_proxy_against_endpoint ends; the call returns a result.
TestFinish(i) ==
    /\ pc = "testing"
    /\ futures[i].st = "running"
    /\ \E outcome \in ProbeOutcomes :
         futures' = [futures EXCEPT ![i] =
                        [st |-> "done", start |-> @.start, outcome |-> outcome,
                         result |-> test_proxy_against_endpoint(
                                        working_proxies[i], TARGET_ENDPOINT,
                                        outcome, @.start, now)]]
    /\ UNCHANGED <<store, pc, now, fetched, proxies, working_proxies, idx,
                   results, stored, pool, upserts, seq>>

\* A loop that puts each result in front of the list.
TestCollectPrepend ==
    /\ pc = "testing"
    /\ idx <= Len(futures)
    /\ FutureDone(futures[idx])
    /\ results' = <<futures[idx].result>> \o results
    /\ idx' = idx + 1
    /\ UNCHANGED <<store, pc, now, fetched, proxies, working_proxies, futures,
                   stored, pool, upserts, seq>>

\* A loop that writes a failed test back: the row is no longer working.
TestCollectWriteBack ==
    /\ pc = "testing"
    /\ idx <= Len(futures)
    /\ FutureDone(futures[idx])
    /\ results' = Append(results, futures[idx].result)
    /\ store' = IF futures[idx].result.success THEN store
                ELSE [store EXCEPT ![idx] = [@ EXCEPT !.is_working = FALSE]]
    /\ idx' = idx + 1
    /\ UNCHANGED <<pc, now, fetched, proxies, working_proxies, futures,
                   stored, pool, upserts, seq>>

\* test_all_proxies_against_endpoint, lines 223-228: the loop takes the
\* result of the next future and appends it (a result dict is never falsy).
TestCollect ==
    /\ pc = "testing"
    /\ idx <= Len(futures)
    /\ FutureDone(futures[idx])
    /\ results' = Append(results, futures[idx].result)
    /\ idx' = idx + 1
    /\ UNCHANGED <<store, pc, now, fetched, proxies, working_proxies, futures,
                   stored, pool, upserts, seq>>

\* test_all_proxies_against_endpoint returns results.
TestReturn ==
    /\ pc = "testing"
    /\ idx > Len(futures)
    /\ AllDone(futures)
    /\ pc' = "test_returned"
    /\ UNCHANGED <<store, now, fetched, proxies, working_proxies, futures, idx,
                   results, stored, pool, upserts, seq>>

\* The caller of a returned sweep goes on; the locals of the sweep are gone.
Resume ==
    /\ pc \in {"harvest_returned", "test_returned"}
    /\ pc' = "idle"
    /\ proxies' = <<>>
    /\ working_proxies' = <<>>
    /\ futures' = <<>>
    /\ idx' = 0
    /\ results' = <<>>
    /\ stored' = 0
    /\ UNCHANGED <<store, now, fetched, pool, upserts, seq>>

Next ==
    \/ Tick
    \/ HarvestAll
    \/ ValidateSubmit
    \/ \E i \in 1..Len(futures) : WorkerStart(i)
    \/ \E i \in 1..Len(futures) : ValidateFinish(i)
    \/ ValidateCollect
    \/ ValidateReturn
    \/ TestBegin
    \/ \E i \in 1..Len(futures) : TestFinish(i)
    \/ TestCollect
    \/ TestReturn
    \/ Resume

Spec == Init /\ [][Next]_vars

(***************************************************************************)
(* The executor of one sweep, by counting: of the submitted calls, how     *)
(* many a worker has started and how many have finished.  The sweep that   *)
(* feeds it is left out, so that more calls than workers can be submitted. *)
(***************************************************************************)
PoolWorkers(kind) ==
    IF kind = "harvest" THEN HARVEST_MAX_WORKERS ELSE TEST_MAX_WORKERS

PoolInFlight == pool.started - pool.finished

InitPool ==
    /\ store = <<>>
    /\ pc = "idle"
    /\ now = 0
    /\ fetched = <<>>
    /\ proxies = <<>>
    /\ working_proxies = <<>>
    /\ futures = <<>>
    /\ idx = 0
    /\ results = <<>>
    /\ stored = 0
    /\ \E kind \in {"harvest", "test"} : \E n \in 0..MaxSubmitted :
         /\ kind = "test" => n >= 1
         /\ pool = [kind |-> kind, submitted |-> n, started |-> 0, finished |-> 0]
    /\ upserts = NoUpserts
    /\ seq = NoSeq

\* A worker thread takes the oldest queued call.
PoolStart ==
    /\ pool.started < pool.submitted
    /\ CanDispatch(PoolInFlight, PoolWorkers(pool.kind))
    /\ pool' = [pool EXCEPT !.started = @ + 1]
    /\ UNCHANGED <<store, pc, now, fetched, proxies, working_proxies, futures,
                   idx, results, stored, upserts, seq>>

\* The request of a started call ends.
PoolFinish ==
    /\ pool.finished < pool.started
    /\ pool' = [pool EXCEPT !.finished = @ + 1]
    /\ UNCHANGED <<store, pc, now, fetched, proxies, working_proxies, futures,
                   idx, results, stored, upserts, seq>>

NextPool == PoolStart \/ PoolFinish

SpecPool == InitPool /\ [][NextPool]_vars

(***************************************************************************)
(* harvest_source alone, on payloads whose ports are at and beyond the     *)
(* ends of the port range.                                                 *)
(***************************************************************************)
\* A text body of one line, "1.1.1.1:<port>\n".
TextOfPort(port) == Chars(Ip1111 \o <<":">> \o port \o <<"\n">>)

\* A geonode body of one item.
JsonOfItem(item) == [type |-> "dict", data |-> <<item>>]

PortTexts ==
    { TextOfPort(<<"8", "0">>), TextOfPort(<<"0", "0">>), TextOfPort(<<"8">>),
      TextOfPort(<<"9", "9", "9", "9", "9">>),
      TextOfPort(<<"1", "2", "3", "4", "5", "6">>) }

PortJsons ==
    { JsonOfItem([ip |-> Ip1111, port |-> JsonStr(<<"8", "0">>), protocols |-> <<"HTTP">>]),
      JsonOfItem([ip |-> Ip1111, port |-> JsonInt(0), protocols |-> <<"http">>]),
      JsonOfItem([ip |-> Ip1111, protocols |-> <<"http">>]),
      JsonOfItem([ip |-> Ip1111, port |-> JsonInt(70000), protocols |-> <<"socks5">>]),
      JsonOfItem([ip |-> Ip1111, port |-> JsonInt(-1), protocols |-> <<"socks4">>]),
      JsonOfItem([ip |-> Ip1111, port |-> JsonStr(<<"8", "o">>), protocols |-> <<"http">>]) }

PortResponsesOf(name) ==
    IF name = "geonode" THEN { Response(200, TRUE, j) : j \in PortJsons }
    ELSE { Response(200, FALSE, t) : t \in PortTexts }

\* The responses of the sources are there; harvest_source has not run.
InitParse ==
    /\ store = <<>>
    /\ pc = "idle"
    /\ now = 0
    /\ fetched \in [1..Len(SOURCES) ->
                      UNION {PortResponsesOf(SOURCES[i]) : i \in 1..Len(SOURCES)}]
    /\ \A i \in 1..Len(SOURCES) : fetched[i] \in PortResponsesOf(SOURCES[i])
    /\ proxies = <<>>
    /\ working_proxies = <<>>
    /\ futures = <<>>
    /\ idx = 0
    /\ results = <<>>
    /\ stored = 0
    /\ pool = NoPool
    /\ upserts = NoUpserts
    /\ seq = NoSeq

\* harvest_source(name, url) for source i: its list, or its exception.
HarvestSource(i) ==
    /\ pc = "idle"
    /\ idx' = i
    /\ LET r == harvest_source(SOURCES[i], fetched[i])
       IN  /\ pc' = IF r.raised THEN "source_raised" ELSE "source_returned"
           /\ proxies' = r.value
    /\ UNCHANGED <<store, now, fetched, working_proxies, futures, results,
                   stored, pool, upserts, seq>>

NextParse == \E i \in 1..Len(SOURCES) : HarvestSource(i)

SpecParse == InitParse /\ [][NextParse]_vars

(***************************************************************************)
(* store_proxy called by two callers at once (two runs of the bot on one   *)
(* collection): insert_one and update_one are each atomic in the database, *)
(* the call as a whole is not.                                             *)
(***************************************************************************)
\* The documents validate_proxy returned to the callers, for one identity.
UpsertDocs ==
    { validate_proxy(<<Ip1111, 80, "http">>,
                     [kind |-> "response", status |-> 200], 0, end) :
        end \in 0..1 }

\* A store_proxy call that has not reached insert_one.
Upsert(doc) ==
    [doc |-> doc, at |-> "insert", inserted |-> FALSE, t |-> 0, order |-> 0]

\* The writes that took effect so far.
Writes(us) == Cardinality({k \in 1..Len(us) : us[k].order > 0})

InitUpsert ==
    /\ store \in { <<>>,
                   << validate_proxy(<<Ip1111, 80, "http">>,
                                     [kind |-> "response", status |-> 200], 0, 0) >> }
    /\ pc = "idle"
    /\ now = 1
    /\ fetched = <<>>
    /\ proxies = <<>>
    /\ working_proxies = <<>>
    /\ futures = <<>>
    /\ idx = 0
    /\ results = <<>>
    /\ stored = 0
    /\ pool = NoPool
    /\ \E d1, d2 \in UpsertDocs : upserts = <<Upsert(d1), Upsert(d2)>>
    /\ seq = NoSeq

\* store_proxy, line 140: insert_one inserts, or raises DuplicateKeyError,
\* which the except clause of line 142 catches.
UpsertInsert(k) ==
    /\ upserts[k].at = "insert"
    /\ IF DuplicateKey(store, upserts[k].doc)
       THEN /\ upserts' = [upserts EXCEPT ![k].at = "except"]
            /\ UNCHANGED store
       ELSE /\ store' = insert_one(store, upserts[k].doc)
            /\ upserts' = [upserts EXCEPT ![k] =
                              [@ EXCEPT !.at = "done", !.inserted = TRUE,
                                        !.t = now, !.order = Writes(upserts) + 1]]
    /\ UNCHANGED <<pc, now, fetched, proxies, working_proxies, futures, idx,
                   results, stored, pool, seq>>

\* store_proxy, lines 144-147: the update_one of the except clause.
UpsertUpdate(k) ==
    /\ upserts[k].at = "except"
    /\ store' = update_one(store, Identity(upserts[k].doc), now,
                           upserts[k].doc.response_time)
    /\ upserts' = [upserts EXCEPT ![k] =
                      [@ EXCEPT !.at = "done", !.t = now,
                                !.order = Writes(upserts) + 1]]
    /\ UNCHANGED <<pc, now, fetched, proxies, working_proxies, futures, idx,
                   results, stored, pool, seq>>

NextUpsert ==
    \/ Tick
    \/ \E k \in 1..Len(upserts) : UpsertInsert(k)
    \/ \E k \in 1..Len(upserts) : UpsertUpdate(k)

SpecUpsert == InitUpsert /\ [][NextUpsert]_vars

(***************************************************************************)
(* sequential_harvest_and_test: the loop around run_once and                *)
(* test_all_proxies_against_endpoint.  seq.log holds the steps the running  *)
(* cycle has completed.                                                     *)
(***************************************************************************)
InitSeq ==
    /\ store = <<>>
    /\ pc = "idle"
    /\ now = 0
    /\ fetched = <<>>
    /\ proxies = <<>>
    /\ working_proxies = <<>>
    /\ futures = <<>>
    /\ idx = 0
    /\ results = <<>>
    /\ stored = 0
    /\ pool = NoPool
    /\ upserts = NoUpserts
    /\ seq = [at |-> "top", log |-> <<>>, cycle_count |-> 0]

\* Lines 315-317: the head of the while True loop.
SeqCycleStart ==
    /\ seq.at = "top"
    /\ seq.cycle_count < MaxCycles
    /\ seq' = [at |-> "run_once", log |-> <<>>, cycle_count |-> seq.cycle_count + 1]
    /\ UNCHANGED <<store, pc, now, fetched, proxies, working_proxies, futures,
                   idx, results, stored, pool, upserts>>

\* Line 326: self.run_once() is called; harvest_all runs.
SeqHarvestAll ==
    /\ seq.at = "run_once"
    /\ HarvestAll

\* A run_once that returns while its sweep is still running.
SeqAfterHarvestEarly ==
    /\ seq.at = "run_once"
    /\ pc \in {"validating", "harvest_returned"}
    /\ seq' = [seq EXCEPT !.at = "test", !.log = Append(@, "harvest")]
    /\ pc' = "idle"
    /\ proxies' = <<>>
    /\ working_proxies' = <<>>
    /\ futures' = <<>>
    /\ idx' = 0
    /\ results' = <<>>
    /\ stored' = 0
    /\ UNCHANGED <<store, now, fetched, pool, upserts>>

\* Lines 326-331: run_once has returned; the statistics are read.
SeqAfterHarvest ==
    /\ seq.at = "run_once"
    /\ pc = "harvest_returned"
    /\ seq' = [seq EXCEPT !.at = "test", !.log = Append(@, "harvest")]
    /\ pc' = "idle"
    /\ proxies' = <<>>
    /\ working_proxies' = <<>>
    /\ futures' = <<>>
    /\ idx' = 0
    /\ results' = <<>>
    /\ stored' = 0
    /\ UNCHANGED <<store, now, fetched, pool, upserts>>

\* Line 336: test_all_proxies_against_endpoint is called.
SeqTestBegin ==
    /\ seq.at = "test"
    /\ TestBegin

\* Lines 336-350: the test has returned; the summary is printed.
SeqAfterTest ==
    /\ seq.at = "test"
    /\ pc = "test_returned"
    /\ seq' = [seq EXCEPT !.at = "wait", !.log = Append(@, "test")]
    /\ pc' = "idle"
    /\ proxies' = <<>>
    /\ working_proxies' = <<>>
    /\ futures' = <<>>
    /\ idx' = 0
    /\ results' = <<>>
    /\ stored' = 0
    /\ UNCHANGED <<store, now, fetched, pool, upserts>>

\* Lines 352-361: time.sleep(wait_time) if the cycle was shorter than the
\* interval, no wait otherwise; then the next turn of the loop.
SeqWait ==
    /\ seq.at = "wait"
    /\ \E slept \in BOOLEAN :
         seq' = [seq EXCEPT !.at = "top",
                            !.log = IF slept THEN Append(@, "wait") ELSE @]
    /\ UNCHANGED <<store, pc, now, fetched, proxies, working_proxies, futures,
                   idx, results, stored, pool, upserts>>

NextSeq ==
    \/ Tick
    \/ SeqCycleStart
    \/ SeqHarvestAll
    \/ ValidateSubmit
    \/ \E i \in 1..Len(futures) : WorkerStart(i)
    \/ \E i \in 1..Len(futures) : ValidateFinish(i)
    \/ ValidateCollect
    \/ ValidateReturn
    \/ SeqAfterHarvest
    \/ SeqTestBegin
    \/ \E i \in 1..Len(futures) : TestFinish(i)
    \/ TestCollect
    \/ TestReturn
    \/ SeqAfterTest
    \/ SeqWait

SpecSeq == InitSeq /\ [][NextSeq]_vars

(***************************************************************************)
(* One sweep with the clock of its requests: requests.get is called with   *)
(* timeout=VALIDATION_TIMEOUT and raises when the endpoint has not         *)
(* answered by then.                                                       *)
(***************************************************************************)
\* A request without a timeout.
ExpiredNever(start, t) == FALSE

\* The request started at start has had no answer for VALIDATION_TIMEOUT.
Expired(start, t) == t - start >= VALIDATION_TIMEOUT

Running(i) == futures[i].st = "running"

\* The collections a sweep can find: rows stored by earlier harvests.
LiveStores ==
    LET row(proto) == validate_proxy(<<Ip1111, 80, proto>>,
                                     [kind |-> "response", status |-> 200], 0, 0)
    IN  { <<>>, <<row("http")>>, <<row("http"), row("socks5")>> }

InitLive ==
    /\ store \in LiveStores
    /\ pc = "idle"
    /\ now = 0
    /\ fetched = <<>>
    /\ proxies = <<>>
    /\ working_proxies = <<>>
    /\ futures = <<>>
    /\ idx = 0
    /\ results = <<>>
    /\ stored = 0
    /\ pool = NoPool
    /\ upserts = NoUpserts
    /\ seq = NoSeq

\* Time passes while a request is waiting for its answer; a request whose
\* timeout is over raises before more time passes.
LiveTick ==
    /\ pc \in {"validating", "testing"}
    /\ \E i \in 1..Len(futures) :
         Running(i) /\ now - futures[i].start < VALIDATION_TIMEOUT
    /\ \A i \in 1..Len(futures) : Running(i) => ~Expired(futures[i].start, now)
    /\ now' = now + TickSeconds
    /\ UNCHANGED <<store, pc, fetched, proxies, working_proxies, futures, idx,
                   results, stored, pool, upserts, seq>>

\* requests.get raises a timeout; the except clause of the call returns None
\* (validate_proxy) or the error result (test_proxy_against_endpoint).
TimeoutFires(i) ==
    /\ pc \in {"validating", "testing"}
    /\ Running(i)
    /\ Expired(futures[i].start, now)
    /\ LET outcome == [kind |-> "exception", msg |-> "timeout"]
       IN  futures' = [futures EXCEPT ![i] =
                          [st |-> "done", start |-> @.start, outcome |-> outcome,
                           result |-> IF pc = "validating"
                                      THEN validate_proxy(proxies[i], outcome,
                                                          @.start, now)
                                      ELSE test_proxy_against_endpoint(
                                               working_proxies[i], TARGET_ENDPOINT,
                                               outcome, @.start, now)]]
    /\ UNCHANGED <<store, pc, now, fetched, proxies, working_proxies, idx,
                   results, stored, pool, upserts, seq>>

NextLive ==
    \/ LiveTick
    \/ HarvestAll
    \/ ValidateSubmit
    \/ \E i \in 1..Len(futures) : WorkerStart(i)
    \/ \E i \in 1..Len(futures) : ValidateFinish(i)
    \/ \E i \in 1..Len(futures) : TimeoutFires(i)
    \/ ValidateCollect
    \/ ValidateReturn
    \/ TestBegin
    \/ \E i \in 1..Len(futures) : TestFinish(i)
    \/ TestCollect
    \/ TestReturn

\* The threads of the process run and the clock advances; whether and when an
\* endpoint answers is not assumed.
SpecLive ==
    /\ InitLive
    /\ [][NextLive]_vars
    /\ WF_vars(LiveTick)
    /\ WF_vars(ValidateSubmit)
    /\ WF_vars(\E i \in 1..Len(futures) : WorkerStart(i))
    /\ WF_vars(\E i \in 1..Len(futures) : TimeoutFires(i))
    /\ WF_vars(ValidateCollect)
    /\ WF_vars(ValidateReturn)
    /\ WF_vars(TestCollect)
    /\ WF_vars(TestReturn)

(***************************************************************************)
(* Properties                                                              *)
(***************************************************************************)
HasRow(coll, key) == \E i \in 1..Len(coll) : Identity(coll[i]) = key

RowsOf(coll, key) == {i \in 1..Len(coll) : Identity(coll[i]) = key}

\* The future the loop of the harvest sweep has just taken.
JustCollected == futures[idx - 1]

\* The running harvest sweep has stored the document of future j into a row
\* that an earlier sweep had inserted: the row's last_checked is not the
\* document's.
UpdatedBy(j) ==
    /\ j < idx
    /\ futures[j].result # None
    /\ \E i \in 1..Len(store) :
         /\ Identity(store[i]) = Identity(futures[j].result)
         /\ store[i].last_checked # futures[j].result.last_checked

\* C1: in every reachable state the collection holds at most one document
\* per (ip, port, protocol).
C1_OneRowPerIdentity ==
    \A i, j \in 1..Len(store) :
        Identity(store[i]) = Identity(store[j]) => i = j

\* A harvest sweep has stored two documents, one of them for an identity
\* that a row existed for.
C1_Witness ==
    /\ pc = "harvest_returned"
    /\ stored = 2
    /\ Len(store) = 2
    /\ \E j \in 1..Len(futures) : UpdatedBy(j)

\* C2: after store_proxy was called for a record, the collection holds
\* exactly one row of the record's identity, and the row's last_checked and
\* response_time are those the record carries.
C2_RowCarriesRecord ==
    (pc = "validating" /\ idx > 1 /\ JustCollected.result # None) =>
        /\ Cardinality(RowsOf(store, Identity(JustCollected.result))) = 1
        /\ \A i \in RowsOf(store, Identity(JustCollected.result)) :
             /\ store[i].last_checked = JustCollected.result.last_checked
             /\ store[i].response_time = JustCollected.result.response_time

\* C3: a store_proxy call for an identity that has a row leaves the number of
\* rows, the row's identity, is_working, status_code and test_url, and every
\* row of another identity as they were.
C3_UpdateFrame ==
    [][ ( /\ pc = "validating"
          /\ idx' = idx + 1
          /\ futures[idx].result # None
          /\ HasRow(store, Identity(futures[idx].result)) )
        => /\ Len(store') = Len(store)
           /\ \A i \in 1..Len(store) :
                IF Identity(store[i]) = Identity(futures[idx].result)
                THEN /\ Identity(store'[i]) = Identity(store[i])
                     /\ store'[i].is_working = store[i].is_working
                     /\ store'[i].status_code = store[i].status_code
                     /\ store'[i].test_url = store[i].test_url
                ELSE store'[i] = store[i] ]_vars

\* A sweep has updated the row of one identity while the collection holds a
\* row of another identity.
C3_Witness ==
    /\ pc = "validating"
    /\ Len(store) = 2
    /\ stored = 1
    /\ idx = 2
    /\ UpdatedBy(1)

Is200(outcome) == outcome.kind = "response" /\ outcome.status = 200

\* C4: every row of the collection has is_working = true and status_code =
\* 200, and a step that inserts or updates a row is the harvest loop taking
\* the result of a probe that ended with status 200.
C4_OnlySuccessStored ==
    /\ [](\A i \in 1..Len(store) :
             store[i].is_working /\ store[i].status_code = 200)
    /\ [][ (store' # store \/ stored' = stored + 1)
           => /\ pc = "validating"
              /\ idx' = idx + 1
              /\ Is200(futures[idx].outcome) ]_vars

\* A harvest sweep of two candidates has returned; one probe failed and was
\* not stored, the other was.
C4_Witness ==
    /\ pc = "harvest_returned"
    /\ Len(futures) = 2
    /\ stored = 1
    /\ Len(store) = 1
    /\ \E j \in 1..2 : futures[j].outcome.kind = "response"
                        /\ futures[j].outcome.status = 503

\* C5: at most 120 probes of a harvest sweep and at most 50 probes of an
\* endpoint-test sweep are in flight, whatever the number of submitted calls.
C5_BoundedConcurrency ==
    /\ pool.kind = "harvest" => PoolInFlight <= 120
    /\ pool.kind = "test" => PoolInFlight <= 50

\* 120 probes of a harvest sweep are in flight and a submitted call waits.
C5_Witness ==
    /\ pool.kind = "harvest"
    /\ pool.submitted > 120
    /\ PoolInFlight = 120
    /\ pool.started < pool.submitted

Finished(f) == f.st = "done" /\ f.outcome \in ProbeOutcomes

\* C6: when validate_and_store_all or test_all_proxies_against_endpoint has
\* returned, every submitted probe has ended with an outcome, whatever the
\* outcomes of the others, and a harvest sweep has stored at most as many
\* records as candidates were submitted.
C6_FullSweep ==
    /\ pc = "harvest_returned" =>
          /\ Len(futures) = Len(proxies)
          /\ \A i \in 1..Len(futures) : Finished(futures[i])
          /\ stored <= Len(proxies)
    /\ pc = "test_returned" =>
          /\ Len(futures) = Len(working_proxies)
          /\ \A i \in 1..Len(futures) : Finished(futures[i])

\* An endpoint-test sweep of two rows has returned: the first probe raised,
\* the second got status 200.
C6_Witness ==
    /\ pc = "test_returned"
    /\ Len(futures) = 2
    /\ futures[1].outcome.kind = "exception"
    /\ Is200(futures[2].outcome)

\* C7 as claimed: the returned list holds a result per row of the working
\* set, and the result of a probe that ended in an exception or in a status
\* other than 200 has success = false, the error message and no response
\* time.
C7_EveryFailureAsError ==
    pc = "test_returned" =>
        /\ Len(results) = Len(working_proxies)
        /\ \A i \in 1..Len(results) :
             ~Is200(futures[i].outcome) =>
                 /\ results[i].success = FALSE
                 /\ "error" \in DOMAIN results[i]
                 /\ "response_time" \notin DOMAIN results[i]

\* C7 as amended: the returned list holds a result per row of the working
\* set, in the row's name; the result of a probe that raised has success =
\* false, the error message and no response time; the result of a probe that
\* got a status other than 200 has success = false, that status, a response
\* time and no error message.
C7_EveryAttemptReported ==
    pc = "test_returned" =>
        /\ Len(results) = Len(working_proxies)
        /\ \A i \in 1..Len(results) :
             /\ results[i].proxy = <<working_proxies[i].ip, working_proxies[i].port>>
             /\ results[i].protocol = working_proxies[i].protocol
             /\ futures[i].outcome.kind = "exception" =>
                  /\ results[i].success = FALSE
                  /\ "error" \in DOMAIN results[i]
                  /\ results[i].error = futures[i].outcome.msg
                  /\ "response_time" \notin DOMAIN results[i]
             /\ (futures[i].outcome.kind = "response" /\ ~Is200(futures[i].outcome)) =>
                  /\ results[i].success = FALSE
                  /\ results[i].status_code = futures[i].outcome.status
                  /\ "response_time" \in DOMAIN results[i]
                  /\ "error" \notin DOMAIN results[i]

\* An endpoint-test sweep of two rows has returned: one probe timed out, the
\* other got status 503.
C7_Witness ==
    /\ pc = "test_returned"
    /\ Len(results) = 2
    /\ \E i, j \in 1..2 :
         /\ futures[i].outcome = [kind |-> "exception", msg |-> "timeout"]
         /\ futures[j].outcome = [kind |-> "response", status |-> 503]

\* C8: no step of test_all_proxies_against_endpoint, from reading the working
\* set to returning, changes the collection.
C8_TestLeavesStore ==
    [][ pc' \in {"testing", "test_returned"} => store' = store ]_vars

\* An endpoint-test sweep over a collection of two rows has returned with a
\* failed and a successful result.
C8_Witness ==
    /\ pc = "test_returned"
    /\ Len(store) = 2
    /\ Len(results) = 2
    /\ \E i, j \in 1..2 : results[i].success /\ ~results[j].success

NoWorkingRow == \A i \in 1..Len(store) : ~store[i].is_working

\* C9: while the collection holds no row with is_working = true,
\* test_all_proxies_against_endpoint starts no probe and does not raise, and
\* what it returns is the empty list.
C9_EmptyWorkingSet ==
    NoWorkingRow =>
        /\ pc # "test_raised"
        /\ pc \in {"testing", "test_returned"} =>
              \A i \in 1..Len(futures) : futures[i].st = "queued"
        /\ pc = "test_returned" => results = <<>> /\ futures = <<>>

\* test_all_proxies_against_endpoint has returned on an empty collection.
C9_Witness ==
    /\ pc = "test_returned"
    /\ NoWorkingRow
    /\ working_proxies = <<>>
    /\ results = <<>>

FetchFails(resp) == resp.kind = "exception" \/ resp.status # 200

\* C10: harvest_all does not raise, and what it returns is, as a set, the
\* union of the candidates of the sources whose fetch did not fail.
C10_FailingSourcesSkipped ==
    /\ pc # "raised"
    /\ pc = "harvested" =>
          Range(proxies) =
              UNION { Range(harvest_source(SOURCES[i], fetched[i]).value) :
                        i \in {k \in 1..Len(SOURCES) : ~FetchFails(fetched[k])} }

\* What the sources of the running harvest returned, all together.
ReturnedBySources ==
    UNION { Range(harvest_source(SOURCES[i], fetched[i]).value) :
              i \in 1..Len(SOURCES) }

\* C11: the list harvest_all hands to validation holds no identity twice, and
\* holds an identity exactly if a source returned it.
C11_Deduplicated ==
    pc = "harvested" =>
        /\ \A i, j \in 1..Len(proxies) : proxies[i] = proxies[j] => i = j
        /\ Range(proxies) = ReturnedBySources

\* Two sources returned the same identity and a third another one.
C11_Witness ==
    /\ pc = "harvested"
    /\ Len(proxies) = 2
    /\ \E i, j \in 1..Len(SOURCES) :
         /\ i # j
         /\ harvest_source(SOURCES[i], fetched[i]).value # <<>>
         /\ harvest_source(SOURCES[i], fetched[i]).value
              = harvest_source(SOURCES[j], fetched[j]).value

\* A step of a running sweep keeps the calls; a started call stays started or
\* ends, and an ended call stays as it is.
StartedCallsOnlyEnd ==
    pc \in {"validating", "testing"} =>
        /\ Len(futures') = Len(futures)
        /\ \A i \in 1..Len(futures) :
             /\ futures[i].st = "running" =>
                   /\ futures'[i].st \in {"running", "done"}
                   /\ futures'[i].start = futures[i].start
             /\ futures[i].st = "done" => futures'[i] = futures[i]

\* C15: a sweep holds one call per submitted candidate, and a call whose
\* request was started is never queued or started again: once started it only
\* ends, and once ended, whatever its outcome, it stays as it ended.
C15_ProbedOnce ==
    /\ [](/\ pc = "validating" => Len(futures) = Len(proxies)
          /\ pc = "testing" => Len(futures) = Len(working_proxies))
    /\ [][StartedCallsOnlyEnd]_vars

\* A harvest sweep of two candidates has returned; one request timed out and
\* the other could not connect.
C15_Witness ==
    /\ pc = "harvest_returned"
    /\ Len(futures) = 2
    /\ futures[1].outcome = [kind |-> "exception", msg |-> "timeout"]
    /\ futures[2].outcome = [kind |-> "exception", msg |-> "connection error"]
    /\ stored = 0

\* C19: the results of an endpoint test are in submission order: the i-th
\* result is the result of the call for the i-th row of the working set read
\* from the store, and at the return there is one result for every row.
C19_SubmissionOrder ==
    pc \in {"testing", "test_returned"} =>
        /\ working_proxies = find_working(store)
        /\ Len(results) <= Len(working_proxies)
        /\ pc = "test_returned" => Len(results) = Len(working_proxies)
        /\ \A i \in 1..Len(results) :
             /\ results[i] = futures[i].result
             /\ results[i].proxy = <<working_proxies[i].ip, working_proxies[i].port>>
             /\ results[i].protocol = working_proxies[i].protocol

\* A test of two rows has returned, and the call for the second row ended
\* before the call for the first.
C19_Witness ==
    /\ pc = "test_returned"
    /\ Len(results) = 2
    /\ results[2].timestamp < results[1].timestamp

\* A step keeps every working identity in the working set.
WorkingRowsStay ==
    \A i \in 1..Len(find_working(store)) :
        \E j \in 1..Len(find_working(store')) :
            Identity(find_working(store')[j]) = Identity(find_working(store)[i])

\* C20: every stored row is a working row, and no step takes an identity out
\* of the working set, whatever the outcome of its later requests.
C20_WorkingSetNeverShrinks ==
    /\ [](\A i \in 1..Len(store) : store[i].is_working)
    /\ [][WorkingRowsStay]_vars

\* A harvest sweep has returned in which the request for a stored identity
\* failed; the row is still a working row.
C20_Witness ==
    /\ pc = "harvest_returned"
    /\ \E i \in 1..Len(proxies), k \in 1..Len(store) :
         /\ Identity(store[k]) = proxies[i]
         /\ futures[i].outcome.kind = "exception"
         /\ store[k].is_working

\* C13 as stated: a call that has ended and is not handled yet never waits for
\* the call of another candidate: no candidate before it in the loop is
\* unfinished.
C13_NoWaitingOnOthers ==
    pc \in {"validating", "testing"} =>
        \A i \in 1..Len(futures) :
            (i >= idx /\ FutureDone(futures[i])) =>
                \A j \in idx..i : FutureDone(futures[j])

\* C13, amended: the outcomes are handled in submission order. The handled
\* calls are those before the loop position and all of them have ended; the
\* call at the loop position is handled as soon as it has ended, whatever the
\* state of the calls after it.
C13_HandledInSubmissionOrder ==
    /\ pc \in {"validating", "testing"} =>
          \A j \in 1..Len(futures) : j < idx => FutureDone(futures[j])
    /\ (pc = "validating" /\ idx <= Len(futures) /\ FutureDone(futures[idx]))
          => ENABLED ValidateCollect
    /\ (pc = "testing" /\ idx <= Len(futures) /\ FutureDone(futures[idx]))
          => ENABLED TestCollect

\* The first candidate of a harvest sweep is stored while the request of the
\* second one is still running.
C13_Witness ==
    /\ pc = "validating"
    /\ Len(futures) = 2
    /\ idx = 2
    /\ stored = 1
    /\ futures[2].st = "running"

\* The candidates of the items of a geonode list whose port is a number.
RECURSIVE ParseableItems(_, _)
ParseableItems(data, i) ==
    IF i > Len(data) THEN <<>>
    ELSE (IF IntRaises(PortField(data[i])) THEN <<>> ELSE GeonodeItem(data[i]))
            \o ParseableItems(data, i + 1)

\* The candidates of the entries of a payload that can be parsed.
ParseableEntries(name, resp) ==
    LET raw == fetch(resp)
    IN  IF Falsy(raw) THEN <<>>
        ELSE IF name = "geonode" /\ raw.type = "dict"
             THEN ParseableItems(IF "data" \in DOMAIN raw THEN raw.data ELSE <<>>, 1)
        ELSE IF raw.type = "str" THEN TextItems(name, raw.val)
        ELSE <<>>

\* C16: an entry that cannot be parsed removes only itself: the harvest is not
\* aborted, and it returns the candidates of every parseable entry of every
\* source.
C16_MalformedEntriesSkipped ==
    /\ pc # "raised"
    /\ pc = "harvested" =>
          Range(proxies) =
              UNION { Range(ParseableEntries(SOURCES[i], fetched[i])) :
                        i \in 1..Len(SOURCES) }

\* C17: every candidate harvest_source returns has a port from 1 to 65535.
C17_PortInRange ==
    pc = "source_returned" =>
        \A k \in 1..Len(proxies) : proxies[k][2] \in 1..65535

\* The upsert whose write took effect last.
LastWriter == CHOOSE k \in 1..Len(upserts) : upserts[k].order = Len(upserts)

CycleOrderKept ==
    /\ (pc = "idle" /\ pc' \in {"harvested", "raised"}) =>
          seq.at = "run_once" /\ seq.log = <<>>
    /\ seq'.log = Append(seq.log, "harvest") =>
          /\ pc = "harvest_returned"
          /\ idx > Len(futures)
          /\ AllDone(futures)
          /\ seq.log = <<>>
    /\ (pc = "idle" /\ pc' \in {"testing", "test_returned"}) =>
          /\ seq.at = "test" /\ seq.log = <<"harvest">>
          /\ working_proxies' = find_working(store)
    /\ seq'.log = Append(seq.log, "test") =>
          pc = "test_returned" /\ seq.log = <<"harvest">>
    /\ seq'.log = Append(seq.log, "wait") => seq.log = <<"harvest", "test">>
    /\ seq'.cycle_count # seq.cycle_count =>
          \/ seq.cycle_count = 0
          \/ seq.log \in {<<"harvest", "test">>, <<"harvest", "test", "wait">>}

\* C18: in every cycle of the sequential loop the harvest comes first, the
\* test reads the working set only after the harvest sweep of the cycle has
\* returned with every result handled, the wait comes after the test, and the
\* next cycle starts only after the test has returned.
C18_HarvestThenTestThenWait == [][CycleOrderKept]_vars

\* The second cycle tests two rows that its own harvest has just stored or
\* refreshed.
C18_Witness ==
    /\ seq.cycle_count = 2
    /\ seq.log = <<"harvest">>
    /\ pc = "testing"
    /\ Len(working_proxies) = 2

\* C12: a harvest sweep that was handed its candidates eventually returns, and
\* so does an endpoint test that has read its rows, also when no endpoint ever
\* answers: every request ends at its timeout at the latest.
C12_SweepsReturn ==
    /\ (pc = "harvested") ~> (pc = "harvest_returned")
    /\ (pc = "testing") ~> (pc = "test_returned")

\* An endpoint test of two rows has returned and both requests ended by the
\* timeout, VALIDATION_TIMEOUT after their start.
C12_Witness ==
    /\ pc = "test_returned"
    /\ Len(results) = 2
    /\ \A i \in 1..Len(futures) :
         /\ futures[i].outcome = [kind |-> "exception", msg |-> "timeout"]
         /\ results[i].timestamp - futures[i].start >= VALIDATION_TIMEOUT
         /\ ~results[i].success

====
